---- MODULE Spec2Model ----
(***************************************************************************)
(* Contacts service (FastAPI + SQLAlchemy): the authentication / token     *)
(* layer of src/database/auth.py and src/routes/users.py, the credential   *)
(* store of src/repository/users.py and the per-user contact repository of *)
(* src/repository/contacts.py, as a state machine over the database rows.  *)
(*                                                                         *)
(* Python values: None / SQL NULL is the record None; a JWT is the record  *)
(* [payload, sig] where payload is a record whose DOMAIN is the set of     *)
(* claims present (payload['scope'] on a payload without "scope" is a      *)
(* KeyError) and sig says whether the signature verifies under SECRET_KEY. *)
(* jwt.encode is deterministic (HS256), so two tokens are the same string  *)
(* exactly when their payloads are equal.  Time is datetime.utcnow() in    *)
(* whole seconds, the resolution at which iat and exp are serialised.      *)
(* An exception no handler catches surfaces as status 500.                 *)
(***************************************************************************)
EXTENDS Integers, FiniteSets, Sequences, TLC

VARIABLES
    users,       \* rows of table "users"
    contacts,    \* rows of table "contacts"
    contact_seq, \* last value of the contacts.id sequence
    now,         \* datetime.utcnow(), whole seconds
    last,        \* the last request served and its response
    retired,     \* history: None, or a token that was stored when update_token ran
    redeemed,    \* history: addresses whose confirmation token was redeemed
    reqs,        \* refresh requests in flight (concurrent specification)
    current_date, \* current_date of the database server
    sessions     \* the get_db session of each request being served

vars == <<users, contacts, contact_seq, now, last, retired, redeemed, reqs, current_date, sessions>>

----------------------------------------------------------------------------
(* Bounds of the model *)

\* seconds the clock may advance one by one from the start
MaxSkew == 1
\* rows the contacts table may have held (ids handed out)
MaxContacts == 2
\* refresh requests that may be in flight together
MaxRequests == 2

(* Program constants *)

\* create_access_token: timedelta(minutes=15), in seconds
AccessTTL == 900
\* create_refresh_token: timedelta(days=7), in seconds
RefreshTTL == 604800
\* create_email_token: timedelta(days=7), in seconds
EmailTTL == 604800

Emails == {"a@mail.com", "b@mail.com"}
Passwords == {"654321", "123456"}

\* instants the clock may show: the first seconds, and the last second of
\* validity and the first second of expiry of the tokens issued at 0
Times == (0..MaxSkew) \cup {AccessTTL, AccessTTL + 1, RefreshTTL, RefreshTTL + 1}

----------------------------------------------------------------------------
(* Python values *)

None == [none |-> TRUE]

\* JSON null as a claim value
JsonNull == "null"

HTTPException(status_code, detail, headers) ==
    [status |-> status_code, detail |-> detail, headers |-> headers]

\* an exception that is not an HTTPException reaches the client as 500
Unhandled(exc) == [status |-> 500, detail |-> exc, headers |-> {}]

Return(v) == [raised |-> FALSE, value |-> v, exc |-> HTTPException(200, "", {})]
Raise(e) == [raised |-> TRUE, value |-> None, exc |-> e]

HasAttr(obj, name) == name \in DOMAIN obj

----------------------------------------------------------------------------
(* Password hasher: CryptContext(schemes=["bcrypt"]) *)

get_password_hash(password) == <<"bcrypt", password>>

verify_password(plain_password, hashed_password) ==
    hashed_password = get_password_hash(plain_password)

----------------------------------------------------------------------------
(* Token service *)

\* dict.update: keys of upd replace those of d
DictUpdate(d, upd) == upd @@ d

jwt_encode(to_encode) == [payload |-> to_encode, sig |-> TRUE]

\* jwt.decode: JWTError on a bad signature, on exp in the past, on a sub
\* that is not a string; otherwise the payload
jwt_decode(token, t) ==
    IF ~token.sig THEN [ok |-> FALSE, payload |-> token.payload]
    ELSE IF HasAttr(token.payload, "exp") /\ token.payload.exp < t
         THEN [ok |-> FALSE, payload |-> token.payload]
    ELSE IF HasAttr(token.payload, "sub") /\ token.payload.sub = JsonNull
         THEN [ok |-> FALSE, payload |-> token.payload]
    ELSE [ok |-> TRUE, payload |-> token.payload]

\* expires_delta = 0 stands for the default None (both are falsy)
create_access_token(data, expires_delta, t) ==
    LET expire == IF expires_delta # 0 THEN t + expires_delta ELSE t + AccessTTL
    IN  jwt_encode(DictUpdate(data,
            [iat |-> t, exp |-> expire, scope |-> "access_token"]))

create_refresh_token(data, expires_delta, t) ==
    LET expire == IF expires_delta # 0 THEN t + expires_delta ELSE t + RefreshTTL
    IN  jwt_encode(DictUpdate(data,
            [iat |-> t, exp |-> expire, scope |-> "refresh_token"]))

create_email_token(data, t) ==
    jwt_encode(DictUpdate(data, [iat |-> t, exp |-> t + EmailTTL]))

CredentialsError401 ==
    HTTPException(401, "Could not validate credentials", {})

decode_refresh_token(refresh_token, t) ==
    LET d == jwt_decode(refresh_token, t)
        payload == d.payload
    IN  IF ~d.ok THEN Raise(CredentialsError401)
        ELSE IF ~HasAttr(payload, "scope") THEN Raise(Unhandled("KeyError"))
        ELSE IF payload.scope = "refresh_token"
             THEN IF ~HasAttr(payload, "sub") THEN Raise(Unhandled("KeyError"))
                  ELSE Return(payload.sub)
        ELSE Raise(HTTPException(401, "Invalid scope for token", {}))

----------------------------------------------------------------------------
(* Credential store: table "users" (models.User) *)

\* the mapped columns of models.User
UserColumns == {"id", "username", "email", "password", "created_at", "refresh_token"}

\* assignment to an attribute of a loaded row followed by db.commit(): only
\* a mapped column is written to the table
SetAttr(row, name, value) ==
    IF name \in UserColumns THEN [row EXCEPT ![name] = value] ELSE row

get_user_by_email(email, tbl) ==
    IF \E u \in tbl : u.email = email
    THEN CHOOSE u \in tbl : u.email = email
    ELSE None

\* user.refresh_token = token; db.commit(): the unit of work writes the
\* column of the row with the user's primary key when the value differs
\* from the one the session loaded
update_token_keeps_old(user, token, tbl) == tbl

update_token(user, token, tbl) ==
    IF user.refresh_token = token THEN tbl
    ELSE {IF u.id = user.id THEN [u EXCEPT !.refresh_token = token] ELSE u : u \in tbl}

credentials_exception ==
    HTTPException(401, "Could not validate credentials", {"WWW-Authenticate: Bearer"})

get_current_user_any_scope(token, tbl, t) ==
    LET d == jwt_decode(token, t)
        payload == d.payload
    IN  IF ~d.ok THEN Raise(credentials_exception)
        ELSE IF ~HasAttr(payload, "sub") THEN Raise(Unhandled("KeyError"))
        ELSE IF get_user_by_email(payload.sub, tbl) = None
             THEN Raise(credentials_exception)
        ELSE Return(get_user_by_email(payload.sub, tbl))

get_current_user(token, tbl, t) ==
    LET d == jwt_decode(token, t)
        payload == d.payload
    IN  IF ~d.ok THEN Raise(credentials_exception)
        ELSE IF ~HasAttr(payload, "scope") THEN Raise(Unhandled("KeyError"))
        ELSE IF payload.scope = "access_token"
             THEN IF ~HasAttr(payload, "sub") THEN Raise(Unhandled("KeyError"))
                  ELSE IF payload.sub = JsonNull THEN Raise(credentials_exception)
                  ELSE IF get_user_by_email(payload.sub, tbl) = None
                       THEN Raise(credentials_exception)
                  ELSE Return(get_user_by_email(payload.sub, tbl))
        ELSE Raise(credentials_exception)

----------------------------------------------------------------------------
(* Requests and responses *)

Blank ==
    [op |-> "", at |-> 0, status |-> 0, detail |-> "", headers |-> {}, token |-> None,
     email |-> "", password |-> "", caller |-> 0, cid |-> 0, arg |-> "",
     found |-> {}, user |-> None, mailed |-> {}, body |-> None,
     access_token |-> None, refresh_token |-> None]

\* a request served at time t
Request(op, token, t) == [Blank EXCEPT !.op = op, !.at = t, !.token = token]

Failed(req, exc) ==
    [req EXCEPT !.status = exc.status, !.detail = exc.detail, !.headers = exc.headers]

\* bearer strings a client may send: the tokens the service can have issued
\* at the start or in the current second (access, refresh, email
\* confirmation) for a known address, the refresh tokens stored now or
\* remembered as overwritten, and tokens whose signature does not verify
TokenInputs ==
    LET iats == {0, now}
        issued ==
            {create_access_token([sub |-> e], 0, i) : e \in Emails, i \in iats}
            \cup {create_refresh_token([sub |-> e], 0, i) : e \in Emails, i \in iats}
            \cup {create_email_token([sub |-> e], i) : e \in Emails, i \in iats}
        held == ({u.refresh_token : u \in users} \cup {retired}) \ {None}
        forged ==
            {[payload |-> create_access_token([sub |-> e], 0, 0).payload, sig |-> FALSE]
                : e \in Emails}
            \cup {[payload |-> create_refresh_token([sub |-> e], 0, 0).payload, sig |-> FALSE]
                : e \in Emails}
    IN  issued \cup held \cup forged

----------------------------------------------------------------------------
(* Initial state: the tables as a running deployment finds them; a stored  *)
(* refresh token was issued in an earlier second                            *)

Date(y, m, d) == [y |-> y, m |-> m, d |-> d]

\* current_date of the database server at the start
Today == Date(2023, 10, 28)

\* no request in hand, no session
NoSession == [pc |-> "idle", db |-> "none", outcome |-> ""]

\* a worker with no refresh request in hand
Idle ==
    [pc |-> "idle", token |-> None, email |-> "", user |-> None,
     stored |-> FALSE, concurrent |-> {}, resp |-> Blank]

UserRow(id, email, token) ==
    [id |-> id, username |-> "user", email |-> email,
     password |-> get_password_hash(IF id = 1 THEN "654321" ELSE "123456"),
     created_at |-> 0, refresh_token |-> token]

InitTokens(email) == {None, create_refresh_token([sub |-> email], 0, 0)}

Init ==
    /\ \E registered \in SUBSET Emails :
         \E tok \in [registered -> UNION {InitTokens(e) : e \in Emails}] :
            /\ \A e \in registered : tok[e] \in InitTokens(e)
            /\ users = {UserRow(IF e = "a@mail.com" THEN 1 ELSE 2, e, tok[e]) : e \in registered}
    /\ contacts = {}
    /\ contact_seq = 0
    /\ now = 1
    /\ last = Blank
    /\ retired = None
    /\ redeemed = {}
    /\ reqs = [r \in 1..MaxRequests |-> Idle]
    /\ current_date = Today
    /\ sessions = [r \in 1..MaxRequests |-> NoSession]

----------------------------------------------------------------------------
(* routes/users.py *)

\* tokens stored on the row of user id
Stored(tbl, id) == {u.refresh_token : u \in {x \in tbl : x.id = id}} \ {None}

login(username, password) ==
    LET req == [Request("login", None, now) EXCEPT !.email = username, !.password = password]
        user == get_user_by_email(username, users)
        access == create_access_token([sub |-> user.email], 0, now)
        refresh == create_refresh_token([sub |-> user.email], 0, now)
    IN  /\ UNCHANGED <<contacts, contact_seq, now, redeemed, reqs, current_date, sessions>>
        /\ IF user = None
           THEN /\ last' = Failed(req, HTTPException(401, "Invalid email", {}))
                /\ UNCHANGED <<users, retired>>
           ELSE IF ~HasAttr(user, "confirmed")
           THEN /\ last' = Failed(req, Unhandled("AttributeError"))
                /\ UNCHANGED <<users, retired>>
           ELSE IF ~user.confirmed
           THEN /\ last' = Failed(req, HTTPException(401, "Email not confirmed", {}))
                /\ UNCHANGED <<users, retired>>
           ELSE IF ~verify_password(password, user.password)
           THEN /\ last' = Failed(req, HTTPException(401, "Invalid password", {}))
                /\ UNCHANGED <<users, retired>>
           ELSE /\ users' = update_token(user, refresh, users)
                /\ retired' \in {retired} \cup Stored(users, user.id)
                /\ last' = [req EXCEPT !.status = 200, !.caller = user.id,
                                       !.access_token = access, !.refresh_token = refresh]

\* lines 96-98: decode the bearer token and load the user into the session
refresh_load(token, tbl, t) ==
    LET d == decode_refresh_token(token, t)
    IN  IF d.raised
        THEN [raised |-> TRUE, exc |-> d.exc, email |-> "", user |-> None]
        ELSE [raised |-> FALSE, exc |-> d.exc, email |-> d.value,
              user |-> get_user_by_email(d.value, tbl)]

\* lines 99-106: compare with the loaded row, then update_token and commit
refresh_finish(token, email, user, tbl, t) ==
    IF ~HasAttr(user, "refresh_token")
    THEN [tbl |-> tbl, exc |-> Unhandled("AttributeError"), called |-> FALSE,
          access |-> None, refresh |-> None]
    ELSE IF user.refresh_token # token
    THEN [tbl |-> update_token(user, None, tbl),
          exc |-> HTTPException(401, "Invalid refresh token", {}), called |-> TRUE,
          access |-> None, refresh |-> None]
    ELSE [tbl |-> update_token(user, create_refresh_token([sub |-> email], 0, t), tbl),
          exc |-> HTTPException(200, "", {}), called |-> TRUE,
          access |-> create_access_token([sub |-> email], 0, t),
          refresh |-> create_refresh_token([sub |-> email], 0, t)]

\* the response of the refresh route and the history of update_token calls
RefreshResponse(token, ld, fin, t) ==
    [Failed(Request("refresh_token", token, t), fin.exc)
        EXCEPT !.email = ld.email,
               !.caller = IF ld.user = None THEN 0 ELSE ld.user.id,
               !.access_token = fin.access, !.refresh_token = fin.refresh]

route_refresh_token(token) ==
    LET ld == refresh_load(token, users, now)
        fin == refresh_finish(token, ld.email, ld.user, users, now)
    IN  /\ UNCHANGED <<contacts, contact_seq, now, redeemed, reqs, current_date, sessions>>
        /\ IF ld.raised
           THEN /\ last' = Failed(Request("refresh_token", token, now), ld.exc)
                /\ UNCHANGED <<users, retired>>
           ELSE /\ users' = fin.tbl
                /\ retired' \in IF fin.called
                                   THEN {retired} \cup Stored(users, ld.user.id)
                                   ELSE {retired}
                /\ last' = RefreshResponse(token, ld, fin, now)

read_users_me(token) ==
    LET cur == get_current_user(token, users, now)
        req == Request("read_users_me", token, now)
    IN  /\ UNCHANGED <<users, contacts, contact_seq, now, retired, redeemed, reqs, current_date, sessions>>
        /\ last' = IF cur.raised THEN Failed(req, cur.exc)
                   ELSE [req EXCEPT !.status = 200, !.caller = cur.value.id,
                                    !.email = cur.value.email]

\* repository update_avatar: user.avatar = url; db.commit()
update_avatar(email, url, tbl) ==
    {IF u.email = email THEN SetAttr(u, "avatar", url) ELSE u : u \in tbl}

update_avatar_user(token) ==
    LET cur == get_current_user(token, users, now)
        req == Request("update_avatar_user", token, now)
    IN  /\ UNCHANGED <<contacts, contact_seq, now, retired, redeemed, reqs, current_date, sessions>>
        /\ IF cur.raised
           THEN /\ last' = Failed(req, cur.exc)
                /\ UNCHANGED users
           ELSE /\ users' = update_avatar(cur.value.email, "url", users)
                /\ last' = [req EXCEPT !.status = 200, !.caller = cur.value.id,
                                       !.email = cur.value.email]

\* auth.get_email_from_token
get_email_from_token(token, t) ==
    LET d == jwt_decode(token, t)
    IN  IF ~d.ok
        THEN Raise(HTTPException(422, "Invalid token for email verification", {}))
        ELSE IF ~HasAttr(d.payload, "sub") THEN Raise(Unhandled("KeyError"))
        ELSE Return(d.payload.sub)

\* repository confirmed_email: user.confirmed = True; db.commit()
confirmed_email(email, tbl) ==
    {IF u.email = email THEN SetAttr(u, "confirmed", TRUE) ELSE u : u \in tbl}

\* route GET /auth/confirmed_email/{token}; redeemed remembers the address
\* of every registered user for whom a valid confirmation token (one
\* carrying no scope) was presented
route_confirmed_email(token) ==
    LET req == Request("confirmed_email", token, now)
        em == get_email_from_token(token, now)
        user == get_user_by_email(em.value, users)
    IN  /\ UNCHANGED <<contacts, contact_seq, now, retired, reqs, current_date, sessions>>
        /\ IF em.raised
           THEN /\ last' = Failed(req, em.exc)
                /\ UNCHANGED <<users, redeemed>>
           ELSE IF user = None
           THEN /\ last' = Failed(req, HTTPException(400, "Verification error", {}))
                /\ UNCHANGED <<users, redeemed>>
           ELSE /\ redeemed' = IF HasAttr(token.payload, "scope") THEN redeemed
                               ELSE redeemed \cup {user.email}
                /\ IF ~HasAttr(user, "confirmed")
                   THEN /\ last' = [Failed(req, Unhandled("AttributeError"))
                                        EXCEPT !.email = user.email]
                        /\ UNCHANGED users
                   ELSE IF user.confirmed
                   THEN /\ last' = [req EXCEPT !.status = 200, !.email = user.email,
                                        !.detail = "Your email is already confirmed"]
                        /\ UNCHANGED users
                   ELSE /\ users' = confirmed_email(user.email, users)
                        /\ last' = [req EXCEPT !.status = 200, !.email = user.email,
                                        !.detail = "Email confirmed"]

\* repository create_user: User(**body.model_dump(), avatar=avatar); the
\* declarative constructor raises TypeError for a keyword that is not an
\* attribute of the mapped class
create_user(body, tbl, t) ==
    LET kwargs == DOMAIN body \cup {"avatar"}
        ids == {u.id : u \in tbl}
        new_id == IF ids = {} THEN 1 ELSE (CHOOSE m \in ids : \A i \in ids : i <= m) + 1
        new_user == [id |-> new_id, username |-> body.username, email |-> body.email,
                     password |-> body.password, created_at |-> t,
                     refresh_token |-> None]
    IN  IF \E k \in kwargs : k \notin UserColumns
        THEN [tbl |-> tbl, raised |-> TRUE, exc |-> Unhandled("TypeError"), user |-> None]
        ELSE [tbl |-> tbl \cup {new_user}, raised |-> FALSE,
              exc |-> HTTPException(201, "User successfully created", {}),
              user |-> new_user]

\* bodies of POST /auth/signup (schemas.UserModel)
UserModels ==
    [username : {"testname"}, email : Emails, password : Passwords]

signup_without_lookup(body, tbl, t) ==
    LET hashed == [body EXCEPT !.password = get_password_hash(body.password)]
        cr == create_user(hashed, tbl, t)
    IN  [tbl |-> cr.tbl, exc |-> cr.exc, user |-> cr.user,
         mailed |-> IF cr.raised THEN {} ELSE {cr.user.email}]

\* route POST /auth/signup: the table, the response and the addresses handed
\* to background_tasks.add_task(send_email, ...)
signup_handler(body, tbl, t) ==
    LET exist_user == get_user_by_email(body.email, tbl)
        hashed == [body EXCEPT !.password = get_password_hash(body.password)]
        cr == create_user(hashed, tbl, t)
    IN  IF exist_user # None
        THEN [tbl |-> tbl, exc |-> HTTPException(409, "Account already exists", {}),
              user |-> None, mailed |-> {}]
        ELSE [tbl |-> cr.tbl, exc |-> cr.exc, user |-> cr.user,
              mailed |-> IF cr.raised THEN {} ELSE {cr.user.email}]

signup(body) ==
    LET r == signup_handler(body, users, now)
        req == [Request("signup", None, now) EXCEPT !.email = body.email,
                                                    !.password = body.password]
    IN  /\ users' = r.tbl
        /\ last' = [Failed(req, r.exc) EXCEPT !.user = r.user, !.mailed = r.mailed]
        /\ UNCHANGED <<contacts, contact_seq, now, retired, redeemed, reqs, current_date, sessions>>

\* route POST /auth/request_email: the response and the addresses handed to
\* background_tasks.add_task(send_email, ...); user.confirmed is read before
\* the test of user, on None as well as on a row
request_email_handler(email, tbl) ==
    LET user == get_user_by_email(email, tbl)
    IN  IF ~HasAttr(user, "confirmed")
        THEN [exc |-> Unhandled("AttributeError"), mailed |-> {}]
        ELSE IF user.confirmed
        THEN [exc |-> HTTPException(200, "Your email is already confirmed", {}),
              mailed |-> {}]
        ELSE [exc |-> HTTPException(200, "Check your email for confirmation.", {}),
              mailed |-> IF user # None THEN {user.email} ELSE {}]

\* the handler reads only; no commit is issued
request_email(email) ==
    LET r == request_email_handler(email, users)
        req == [Request("request_email", None, now) EXCEPT !.email = email]
    IN  /\ last' = [Failed(req, r.exc) EXCEPT !.mailed = r.mailed]
        /\ UNCHANGED <<users, contacts, contact_seq, now, retired, redeemed, reqs,
                       current_date, sessions>>

\* the clock moves on
Tick ==
    /\ \E t \in Times : t > now /\ now' = t
    /\ UNCHANGED <<users, contacts, contact_seq, last, retired, redeemed, reqs, current_date, sessions>>

\* login and token refresh as time passes
NextAuth ==
    \/ \E e \in Emails, p \in Passwords : login(e, p)
    \/ \E tk \in TokenInputs : route_refresh_token(tk)
    \/ Tick

SpecAuth == Init /\ [][NextAuth]_vars

\* email confirmation and login
NextLogin ==
    \/ \E tk \in TokenInputs : route_confirmed_email(tk)
    \/ \E e \in Emails, p \in Passwords : login(e, p)

SpecLogin == Init /\ [][NextLogin]_vars

\* registration, email confirmation and login
NextAccount ==
    \/ \E body \in UserModels : signup(body)
    \/ \E tk \in TokenInputs : route_confirmed_email(tk)
    \/ \E e \in Emails, p \in Passwords : login(e, p)

SpecAccount == Init /\ [][NextAccount]_vars

\* registration, email confirmation and requests for a new confirmation mail
NextMail ==
    \/ \E body \in UserModels : signup(body)
    \/ \E tk \in TokenInputs : route_confirmed_email(tk)
    \/ \E e \in Emails : request_email(e)

SpecMail == Init /\ [][NextMail]_vars

\* the routes behind Depends(auth_service.get_current_user) as time passes
NextGate ==
    \/ \E tk \in TokenInputs : read_users_me(tk)
    \/ \E tk \in TokenInputs : update_avatar_user(tk)
    \/ Tick

SpecGate == Init /\ [][NextGate]_vars

\* access and refresh tokens presented as time passes
NextTokens ==
    \/ \E tk \in TokenInputs : read_users_me(tk)
    \/ \E tk \in TokenInputs : route_refresh_token(tk)
    \/ Tick

SpecTokens == Init /\ [][NextTokens]_vars

----------------------------------------------------------------------------
(* Calendar dates and contacts.has_birthday_next_week *)

IsLeap(y) == (y % 4 = 0 /\ y % 100 # 0) \/ y % 400 = 0

DaysInMonth(y, m) ==
    IF m = 2 THEN (IF IsLeap(y) THEN 29 ELSE 28)
    ELSE IF m \in {4, 6, 9, 11} THEN 30 ELSE 31

\* the day before
PrevDay(dt) ==
    IF dt.d > 1 THEN Date(dt.y, dt.m, dt.d - 1)
    ELSE IF dt.m > 1 THEN Date(dt.y, dt.m - 1, DaysInMonth(dt.y, dt.m - 1))
    ELSE Date(dt.y - 1, 12, 31)

RECURSIVE MinusDays(_, _)
\* birthday - timedelta(n)
MinusDays(dt, n) == IF n = 0 THEN dt ELSE MinusDays(PrevDay(dt), n - 1)

Before(a, b) ==
    \/ a.y < b.y
    \/ a.y = b.y /\ a.m < b.m
    \/ a.y = b.y /\ a.m = b.m /\ a.d < b.d

\* whole years from the earlier to the later date
YearsBetween(earlier, later) ==
    (later.y - earlier.y)
    - (IF later.m < earlier.m \/ (later.m = earlier.m /\ later.d < earlier.d)
       THEN 1 ELSE 0)

\* date_part('year', age(dt)): age(current_date, dt), negative for a date
\* after today
AgeYears(dt, today) ==
    IF Before(today, dt) THEN 0 - YearsBetween(today, dt)
    ELSE YearsBetween(dt, today)

has_birthday_next_week(birthday, today) ==
    LET current_age == AgeYears(birthday, today)
        age_in_7_days == AgeYears(MinusDays(birthday, 7), today)
    IN  age_in_7_days > current_age

----------------------------------------------------------------------------
(* Contact repository: table "contacts" (models.Contact) *)

Bodies ==
    {[firstname |-> "Jane", lastname |-> "Dou", email |-> "jd@mail.com",
      phone |-> "08897656456", birthday |-> Date(2000, 10, 31)],
     [firstname |-> "John", lastname |-> "Dou", email |-> "john@mail.com",
      phone |-> "0501234567", birthday |-> Date(1990, 3, 1)]}

\* Query.first()
First(rows) == IF rows = {} THEN None ELSE CHOOSE c \in rows : TRUE

get_contacts(tbl, user) == {c \in tbl : c.user_id = user.id}

\* create_contact without user_id=user.id: the row belongs to no user
create_contact_without_owner(body, seq, user, t) ==
    [id |-> seq + 1, firstname |-> body.firstname, lastname |-> body.lastname,
     email |-> body.email, phone |-> body.phone, birthday |-> body.birthday,
     created_at |-> t, updated_at |-> t, user_id |-> 0]

create_contact(body, seq, user, t) ==
    [id |-> seq + 1, firstname |-> body.firstname, lastname |-> body.lastname,
     email |-> body.email, phone |-> body.phone, birthday |-> body.birthday,
     created_at |-> t, updated_at |-> t, user_id |-> user.id]

get_contact_any_owner(contact_id, tbl, user) ==
    First({c \in tbl : c.id = contact_id})

get_contact(contact_id, tbl, user) ==
    First({c \in tbl : c.id = contact_id /\ c.user_id = user.id})

\* update_contact without the assignment of birthday
Updated_without_birthday(contact, body) ==
    [contact EXCEPT !.firstname = body.firstname, !.lastname = body.lastname,
                    !.email = body.email, !.phone = body.phone]

\* the contact as update_contact leaves it
Updated(contact, body) ==
    [contact EXCEPT !.firstname = body.firstname, !.lastname = body.lastname,
                    !.email = body.email, !.phone = body.phone,
                    !.birthday = body.birthday]

update_contact_any_owner(contact_id, body, tbl, user) ==
    LET contact == First({c \in tbl : c.id = contact_id})
    IN  IF contact = None THEN [tbl |-> tbl, contact |-> None]
        ELSE [tbl |-> (tbl \ {contact}) \cup {Updated(contact, body)},
              contact |-> Updated(contact, body)]

update_contact(contact_id, body, tbl, user) ==
    LET contact == First({c \in tbl : c.id = contact_id /\ c.user_id = user.id})
    IN  IF contact = None THEN [tbl |-> tbl, contact |-> None]
        ELSE [tbl |-> (tbl \ {contact}) \cup {Updated(contact, body)},
              contact |-> Updated(contact, body)]

\* remove_contact without db.delete(contact)
remove_contact_keeps_row(contact_id, tbl, user) ==
    LET contact == First({c \in tbl : c.id = contact_id /\ c.user_id = user.id})
    IN  [tbl |-> tbl, contact |-> contact]

remove_contact(contact_id, tbl, user) ==
    LET contact == First({c \in tbl : c.id = contact_id /\ c.user_id = user.id})
    IN  IF contact = None THEN [tbl |-> tbl, contact |-> None]
        ELSE [tbl |-> tbl \ {contact}, contact |-> contact]

get_contacts_with_name(name, tbl, user) ==
    {c \in tbl : c.firstname = name /\ c.user_id = user.id}

get_contacts_with_lastname(lastname, tbl, user) ==
    {c \in tbl : c.lastname = lastname /\ c.user_id = user.id}

get_contacts_with_email(email, tbl, user) ==
    {c \in tbl : c.email = email /\ c.user_id = user.id}

get_contacts_with_recent_birthdays(tbl, user, today) ==
    {c \in tbl : has_birthday_next_week(c.birthday, today) /\ c.user_id = user.id}

----------------------------------------------------------------------------
(* routes/contacts.py *)

NotFound == HTTPException(404, "Contact not found", {})

\* the answer of a route that returns rows
Rows(req, user, status, rows) ==
    [req EXCEPT !.status = status, !.caller = user.id, !.found = rows]

\* a route that only reads: rows is what the repository returns for the
\* authenticated user cur.value
ReadRoute(op, token, arg, cur, rows) ==
    LET req == [Request(op, token, now) EXCEPT !.arg = arg]
    IN  /\ UNCHANGED <<users, contacts, contact_seq, now, retired, redeemed, reqs, current_date, sessions>>
        /\ last' = IF cur.raised THEN Failed(req, cur.exc)
                   ELSE Rows(req, cur.value, 200, rows)

route_read_contacts(token) ==
    LET cur == get_current_user(token, users, now)
    IN  ReadRoute("read_contacts", token, "", cur,
                  get_contacts(contacts, cur.value))

route_read_contacts_by_firstname(token, firstname) ==
    LET cur == get_current_user(token, users, now)
    IN  ReadRoute("read_contacts_by_firstname", token, firstname, cur,
                  get_contacts_with_name(firstname, contacts, cur.value))

route_read_contacts_by_lastname(token, lastname) ==
    LET cur == get_current_user(token, users, now)
    IN  ReadRoute("read_contacts_by_lastname", token, lastname, cur,
                  get_contacts_with_lastname(lastname, contacts, cur.value))

route_read_contacts_by_email(token, email) ==
    LET cur == get_current_user(token, users, now)
    IN  ReadRoute("read_contacts_by_email", token, email, cur,
                  get_contacts_with_email(email, contacts, cur.value))

route_read_contacts_with_recent_birthdays(token) ==
    LET cur == get_current_user(token, users, now)
    IN  ReadRoute("read_contacts_with_recent_birthdays", token, "", cur,
                  get_contacts_with_recent_birthdays(contacts, cur.value, current_date))

route_read_contact(token, contact_id) ==
    LET cur == get_current_user(token, users, now)
        req == [Request("read_contact", token, now) EXCEPT !.cid = contact_id]
        contact == get_contact(contact_id, contacts, cur.value)
    IN  /\ UNCHANGED <<users, contacts, contact_seq, now, retired, redeemed, reqs, current_date, sessions>>
        /\ last' = IF cur.raised THEN Failed(req, cur.exc)
                   ELSE IF contact = None
                        THEN [Failed(req, NotFound) EXCEPT !.caller = cur.value.id]
                   ELSE Rows(req, cur.value, 200, {contact})

route_create_contact(token, body) ==
    LET cur == get_current_user(token, users, now)
        req == [Request("create_contact", token, now) EXCEPT !.body = body]
        contact == create_contact(body, contact_seq, cur.value, now)
    IN  /\ UNCHANGED <<users, now, retired, redeemed, reqs, current_date, sessions>>
        /\ IF cur.raised
           THEN /\ last' = Failed(req, cur.exc)
                /\ UNCHANGED <<contacts, contact_seq>>
           ELSE /\ contact_seq < MaxContacts
                /\ contacts' = contacts \cup {contact}
                /\ contact_seq' = contact.id
                /\ last' = Rows(req, cur.value, 201, {contact})

route_update_contact(token, contact_id, body) ==
    LET cur == get_current_user(token, users, now)
        req == [Request("update_contact", token, now) EXCEPT !.cid = contact_id,
                                                             !.body = body]
        r == update_contact(contact_id, body, contacts, cur.value)
    IN  /\ UNCHANGED <<users, contact_seq, now, retired, redeemed, reqs, current_date, sessions>>
        /\ IF cur.raised
           THEN /\ last' = Failed(req, cur.exc)
                /\ UNCHANGED contacts
           ELSE /\ contacts' = r.tbl
                /\ last' = IF r.contact = None
                           THEN [Failed(req, NotFound) EXCEPT !.caller = cur.value.id]
                           ELSE Rows(req, cur.value, 200, {r.contact})

route_remove_contact(token, contact_id) ==
    LET cur == get_current_user(token, users, now)
        req == [Request("remove_contact", token, now) EXCEPT !.cid = contact_id]
        r == remove_contact(contact_id, contacts, cur.value)
    IN  /\ UNCHANGED <<users, contact_seq, now, retired, redeemed, reqs, current_date, sessions>>
        /\ IF cur.raised
           THEN /\ last' = Failed(req, cur.exc)
                /\ UNCHANGED contacts
           ELSE /\ contacts' = r.tbl
                /\ last' = IF r.contact = None
                           THEN [Failed(req, NotFound) EXCEPT !.caller = cur.value.id]
                           ELSE Rows(req, cur.value, 200, {r.contact})

\* bearer tokens presented to the contact routes: the access tokens issued
\* now, for a registered address or not
Bearers ==
    {tk \in TokenInputs :
        /\ HasAttr(tk.payload, "scope") /\ tk.payload.scope = "access_token"
        /\ tk.payload.iat = now}

\* the contact routes, called by any client
NextContacts ==
    \/ \E tk \in Bearers : route_read_contacts(tk)
    \/ \E tk \in Bearers, b \in Bodies : route_create_contact(tk, b)
    \/ \E tk \in Bearers, id \in 1..MaxContacts : route_read_contact(tk, id)
    \/ \E tk \in Bearers, id \in 1..MaxContacts, b \in Bodies :
          route_update_contact(tk, id, b)
    \/ \E tk \in Bearers, id \in 1..MaxContacts : route_remove_contact(tk, id)
    \/ \E tk \in Bearers, b \in Bodies :
          route_read_contacts_by_firstname(tk, b.firstname)
    \/ \E tk \in Bearers, b \in Bodies :
          route_read_contacts_by_lastname(tk, b.lastname)
    \/ \E tk \in Bearers, b \in Bodies :
          route_read_contacts_by_email(tk, b.email)
    \/ \E tk \in Bearers : route_read_contacts_with_recent_birthdays(tk)

SpecContacts == Init /\ [][NextContacts]_vars

\* the day after
NextDay(dt) ==
    IF dt.d < DaysInMonth(dt.y, dt.m) THEN Date(dt.y, dt.m, dt.d + 1)
    ELSE IF dt.m < 12 THEN Date(dt.y, dt.m + 1, 1)
    ELSE Date(dt.y + 1, 1, 1)

RECURSIVE PlusDays(_, _)
PlusDays(dt, n) == IF n = 0 THEN dt ELSE PlusDays(NextDay(dt), n - 1)

\* days on which the birthday query is asked: an ordinary day, a day late
\* in December and a day late in February of a year that is not a leap year
QueryDays == {Date(2023, 10, 28), Date(2023, 12, 28), Date(2023, 2, 24)}

\* birthdays on, 7 and 8 days after the ordinary day, early in January, on
\* February 29 and early in March of a leap year
Birthdays ==
    {Date(2000, 10, 28), Date(2000, 11, 4), Date(2000, 11, 5),
     Date(2000, 1, 2), Date(2000, 2, 29), Date(2000, 3, 3)}

BirthdayBodies ==
    {[firstname |-> "Jane", lastname |-> "Dou", email |-> "jd@mail.com",
      phone |-> "08897656456", birthday |-> b] : b \in Birthdays}

\* both users registered, no contacts yet, asked on one of the query days
InitBirthdays ==
    /\ users = {UserRow(1, "a@mail.com", None), UserRow(2, "b@mail.com", None)}
    /\ contacts = {}
    /\ contact_seq = 0
    /\ now = 1
    /\ last = Blank
    /\ retired = None
    /\ redeemed = {}
    /\ reqs = [r \in 1..MaxRequests |-> Idle]
    /\ current_date \in QueryDays
    /\ sessions = [r \in 1..MaxRequests |-> NoSession]

\* contacts are created and the birthday query is asked
NextBirthdays ==
    \/ \E tk \in Bearers, b \in BirthdayBodies : route_create_contact(tk, b)
    \/ \E tk \in Bearers : route_read_contacts_with_recent_birthdays(tk)

SpecBirthdays == InitBirthdays /\ [][NextBirthdays]_vars

----------------------------------------------------------------------------
(* The refresh route served by several workers, each with a session of its *)
(* own from get_db: the row is read into the session at lines 96-98 and    *)
(* compared and written back at lines 99-106, with no lock held or version *)
(* checked in between                                                      *)

\* lines 96-98 in worker r; concurrent remembers the workers that hold a
\* loaded row at this moment, stored whether the token presented is the
\* one on the row
refresh_begin(r, token) ==
    LET ld == refresh_load(token, users, now)
    IN  /\ reqs[r].pc = "idle"
        /\ reqs' = [reqs EXCEPT ![r] =
              IF ld.raised
              THEN [Idle EXCEPT !.pc = "done", !.token = token,
                        !.resp = Failed(Request("refresh_token", token, now), ld.exc)]
              ELSE [Idle EXCEPT !.pc = "loaded", !.token = token,
                        !.email = ld.email, !.user = ld.user,
                        !.stored = (ld.user # None /\ ld.user.refresh_token = token),
                        !.concurrent = {q \in DOMAIN reqs : reqs[q].pc = "loaded"}]]
        /\ UNCHANGED <<users, contacts, contact_seq, now, last, retired, redeemed, current_date, sessions>>

\* lines 99-106 in worker r, on the row as the session loaded it
refresh_commit(r) ==
    LET rq == reqs[r]
        fin == refresh_finish(rq.token, rq.email, rq.user, users, now)
        ld == [email |-> rq.email, user |-> rq.user]
    IN  /\ rq.pc = "loaded"
        /\ users' = fin.tbl
        /\ retired' \in IF fin.called
                           THEN {retired} \cup Stored(users, rq.user.id)
                           ELSE {retired}
        /\ reqs' = [reqs EXCEPT ![r] =
              [rq EXCEPT !.pc = "done",
                         !.resp = RefreshResponse(rq.token, ld, fin, now)]]
        /\ UNCHANGED <<contacts, contact_seq, now, last, redeemed, current_date, sessions>>

\* refresh requests in several workers
NextConc ==
    \/ \E r \in 1..MaxRequests, tk \in TokenInputs : refresh_begin(r, tk)
    \/ \E r \in 1..MaxRequests : refresh_commit(r)

SpecConc == Init /\ [][NextConc]_vars

----------------------------------------------------------------------------
(* database/db.py: the session of a request (Depends(get_db))              *)

\* how a route handler ends: it returns, raises HTTPException, or raises
\* another exception
Outcomes == {"return", "HTTPException", "Exception"}

get_db_close_on_return_only(outcome) ==
    IF outcome = "return" THEN "closed" ELSE "open"

\* lines 21-22: finally: db.close(), whatever was thrown into the generator
get_db_close(outcome) == "closed"

\* lines 18-20: db = SessionLocal(); try: yield db
get_db_enter(r) ==
    /\ sessions[r].pc = "idle"
    /\ sessions' = [sessions EXCEPT ![r] = [pc |-> "handler", db |-> "open", outcome |-> ""]]
    /\ UNCHANGED <<users, contacts, contact_seq, now, last, retired, redeemed, reqs, current_date>>

\* the route handler runs with the session and ends
handler_ends(r, outcome) ==
    /\ sessions[r].pc = "handler"
    /\ sessions' = [sessions EXCEPT ![r] = [@ EXCEPT !.pc = "exit", !.outcome = outcome]]
    /\ UNCHANGED <<users, contacts, contact_seq, now, last, retired, redeemed, reqs, current_date>>

\* the generator is resumed or thrown into and the request is finished
get_db_exit(r) ==
    /\ sessions[r].pc = "exit"
    /\ sessions' = [sessions EXCEPT ![r] =
                      [@ EXCEPT !.pc = "finished",
                                 !.db = get_db_close(sessions[r].outcome)]]
    /\ UNCHANGED <<users, contacts, contact_seq, now, last, retired, redeemed, reqs, current_date>>

\* the worker takes the next request
next_request(r) ==
    /\ sessions[r].pc = "finished"
    /\ sessions' = [sessions EXCEPT ![r] = NoSession]
    /\ UNCHANGED <<users, contacts, contact_seq, now, last, retired, redeemed, reqs, current_date>>

NextSessions ==
    \/ \E r \in 1..MaxRequests : get_db_enter(r)
    \/ \E r \in 1..MaxRequests, o \in Outcomes : handler_ends(r, o)
    \/ \E r \in 1..MaxRequests : get_db_exit(r)
    \/ \E r \in 1..MaxRequests : next_request(r)

\* a handler that has started ends, and the dependency's exit code is run
SpecSessions ==
    /\ Init
    /\ [][NextSessions]_vars
    /\ \A r \in 1..MaxRequests :
         /\ WF_vars(\E o \in Outcomes : handler_ends(r, o))
         /\ WF_vars(get_db_exit(r))

----------------------------------------------------------------------------
(* The whole service *)

Next ==
    \/ NextAuth
    \/ NextLogin
    \/ NextAccount
    \/ NextMail
    \/ NextGate
    \/ NextTokens
    \/ NextContacts
    \/ NextBirthdays
    \/ NextConc
    \/ NextSessions

Spec == Init /\ [][Next]_vars

----------------------------------------------------------------------------
(* Properties *)

\* operations answered behind Depends(auth_service.get_current_user)
ProtectedOps ==
    {"read_users_me", "update_avatar_user", "read_contacts", "create_contact",
     "read_contact", "update_contact", "remove_contact",
     "read_contacts_by_firstname", "read_contacts_by_lastname",
     "read_contacts_by_email", "read_contacts_with_recent_birthdays"}

Registered(email) == \E u \in users : u.email = email

\* the token verifies, had not expired when the request was served and
\* carries the given scope
ValidScoped(token, scope, at) ==
    /\ token.sig
    /\ token.payload.exp >= at
    /\ HasAttr(token.payload, "scope")
    /\ token.payload.scope = scope

NoTokenPair(resp) == resp.access_token = None /\ resp.refresh_token = None

ReadOps ==
    {"read_contacts", "read_contact", "read_contacts_by_firstname",
     "read_contacts_by_lastname", "read_contacts_by_email",
     "read_contacts_with_recent_birthdays"}

\* the contact is owned by the registered user the token names
OwnedBySubject(c, token) ==
    \E u \in users : u.email = token.payload.sub /\ u.id = c.user_id

\* the token authenticates a registered user and the contact with this id
\* exists and belongs to somebody else
ForeignContact(token, at, contact_id) ==
    /\ ValidScoped(token, "access_token", at)
    /\ Registered(token.payload.sub)
    /\ \E c \in contacts : c.id = contact_id /\ ~OwnedBySubject(c, token)

\* C1: every contact returned by the list, the firstname, lastname and email
\* searches, the birthday query and the single-contact read belongs to the
\* user the request authenticated as, and reading the id of a contact owned
\* by another user is answered 404 'Contact not found' with no contact.
C1_ContactIsolation ==
    last.op \in ReadOps =>
        /\ \A c \in last.found : OwnedBySubject(c, last.token)
        /\ (last.op = "read_contact" /\ ForeignContact(last.token, last.at, last.cid))
           => (last.status = 404 /\ last.detail = "Contact not found"
               /\ last.found = {})

C1_Witness ==
    /\ last.op = "read_contact"
    /\ ForeignContact(last.token, last.at, last.cid)
    /\ last.status = 404

\* C2: update_contact and remove_contact called with the id of a contact
\* owned by another user are answered 404 'Contact not found' and leave the
\* contact table as it was.
C2_ForeignMutationRejected ==
    [][(/\ last'.op \in {"update_contact", "remove_contact"}
        /\ last' # last
        /\ ForeignContact(last'.token, last'.at, last'.cid))
       => (/\ last'.status = 404
           /\ last'.detail = "Contact not found"
           /\ contacts' = contacts)]_vars

C2_Witness ==
    /\ last.op = "update_contact"
    /\ ForeignContact(last.token, last.at, last.cid)
    /\ last.status = 404

\* C4: of two refresh requests that present the same stored refresh token
\* and overlap (one reads the user while the other holds the row it read),
\* at most one is answered 200 with a new token pair.
C4_AtMostOneRefreshSucceeds ==
    \A r1 \in DOMAIN reqs, r2 \in DOMAIN reqs :
        (/\ r1 # r2
         /\ reqs[r1].pc = "done" /\ reqs[r2].pc = "done"
         /\ reqs[r1].stored /\ reqs[r2].stored
         /\ reqs[r1].token = reqs[r2].token
         /\ r1 \in reqs[r2].concurrent)
        => ~(reqs[r1].resp.status = 200 /\ reqs[r2].resp.status = 200)

\* C3: once the stored refresh token of a user has been overwritten or set
\* to null (update_token ran while it was stored), a refresh request that
\* presents it is answered 401 and returns no token pair, in every later
\* state.
C3_ReplayRejected ==
    [][(/\ last'.op = "refresh_token"
        /\ (last' # last \/ users' # users)
        /\ retired # None
        /\ last'.token = retired)
       => (last'.status = 401 /\ NoTokenPair(last'))]_vars

\* C5: a refresh request with a valid refresh-scoped token that differs from
\* the value stored on its user is answered 401 and leaves the stored value
\* null; while the stored value is null no refresh request for that user
\* succeeds and the value stays null.
C5_MismatchInvalidates ==
    [][(last'.op = "refresh_token" /\ (last' # last \/ users' # users))
       => \A u \in users :
            (HasAttr(last'.token.payload, "sub") /\ last'.token.payload.sub = u.email)
            => /\ (ValidScoped(last'.token, "refresh_token", now)
                        /\ u.refresh_token # last'.token)
                  => /\ last'.status = 401
                     /\ NoTokenPair(last')
                     /\ Stored(users', u.id) = {}
               /\ (u.refresh_token = None)
                  => /\ last'.status # 200
                     /\ NoTokenPair(last')
                     /\ Stored(users', u.id) = {}]_vars

\* C5 witness: a refresh request was refused for a mismatch and the token
\* that was stored for its user has been replaced by null.
C5_Witness ==
    /\ last.op = "refresh_token"
    /\ last.status = 401
    /\ last.detail = "Invalid refresh token"
    /\ ValidScoped(last.token, "refresh_token", last.at)
    /\ retired # None
    /\ retired # last.token
    /\ retired.payload.sub = last.email
    /\ Stored(users, last.caller) = {}

\* C6: a protected route answers 401 to every validly signed token whose
\* scope is "refresh_token".
C6_RefreshScopeRejected ==
    (/\ last.op \in ProtectedOps
     /\ last.token.sig
     /\ HasAttr(last.token.payload, "scope")
     /\ last.token.payload.scope = "refresh_token")
    => last.status = 401

\* C6 witness: an unexpired refresh token of a registered user was presented
\* to a protected route and refused.
C6_Witness ==
    /\ last.op \in ProtectedOps
    /\ ValidScoped(last.token, "refresh_token", now)
    /\ HasAttr(last.token.payload, "sub")
    /\ Registered(last.token.payload.sub)
    /\ last.status = 401

\* C7: decode_refresh_token answers 401 to a token with a bad signature, an
\* expired one, and one whose scope is absent or not "refresh_token"; it
\* returns the subject only for a valid refresh-scoped token.
C7_DecodeRefreshUnauthorized ==
    last.op = "refresh_token"
    => /\ ~ValidScoped(last.token, "refresh_token", last.at) => last.status = 401
       /\ last.email # "" => ValidScoped(last.token, "refresh_token", last.at)

\* C8: get_current_user answers 401 "Could not validate credentials" with
\* WWW-Authenticate: Bearer when the signature is bad, the token expired,
\* the scope is absent or not "access_token", the subject is missing, or no
\* user has the subject as address.
C8_SameUnauthorized ==
    (/\ last.op \in ProtectedOps
     /\ \/ ~ValidScoped(last.token, "access_token", last.at)
        \/ ~HasAttr(last.token.payload, "sub")
        \/ ~Registered(last.token.payload.sub))
    => /\ last.status = 401
       /\ last.detail = "Could not validate credentials"
       /\ "WWW-Authenticate: Bearer" \in last.headers

\* C9: a login with a registered address whose confirmation token has been
\* redeemed and with the matching password returns an access and a refresh
\* token and leaves the returned refresh token stored on the user.
C9_LoginIssuesAndStores ==
    (/\ last.op = "login"
     /\ last.email \in redeemed
     /\ \E u \in users : u.email = last.email
                         /\ verify_password(last.password, u.password))
    => /\ last.status = 200
       /\ last.access_token # None
       /\ last.refresh_token # None
       /\ \A u \in users : u.email = last.email => u.refresh_token = last.refresh_token

\* C10: a login with an unknown address, for a user who has not confirmed,
\* or with a password that does not match is answered 401, returns no token
\* and leaves every stored refresh token unchanged.
C10_LoginFailures ==
    [][(/\ last'.op = "login"
        /\ (last' # last \/ users' # users)
        /\ \/ ~Registered(last'.email)
           \/ last'.email \notin redeemed
           \/ \E u \in users : u.email = last'.email
                               /\ ~verify_password(last'.password, u.password))
       => (last'.status = 401 /\ NoTokenPair(last') /\ users' = users)]_vars

\* C11: a signup with an address that is already registered is answered
\* 409, leaves the users table as it was and hands no address to the mailer;
\* no two users ever share an address.
C11_SignupConflict ==
    [][/\ (last'.op = "signup" /\ last' # last /\ Registered(last'.email))
          => (/\ last'.status = 409
              /\ users' = users
              /\ last'.mailed = {})
       /\ \A u1 \in users', u2 \in users' : u1.email = u2.email => u1 = u2]_vars

C11_Witness ==
    /\ last.op = "signup"
    /\ Registered(last.email)
    /\ last.status = 409

\* C12: a signup with an address that is not registered is answered 201 and
\* adds exactly one user, with that address, a null refresh token and the
\* hash of the password instead of the password, and returns that user.
C12_SignupCreates ==
    [][(last'.op = "signup" /\ last' # last /\ ~Registered(last'.email))
       => (/\ last'.status = 201
           /\ \E u \in users' :
                /\ users' = users \cup {u}
                /\ u \notin users
                /\ u.email = last'.email
                /\ u.refresh_token = None
                /\ u.password # last'.password
                /\ verify_password(last'.password, u.password)
                /\ last'.user = u)]_vars

\* the token is a confirmation token (no scope) that verifies and had not
\* expired when the request was served
ValidEmailToken(token, at) ==
    /\ token # None
    /\ token.sig
    /\ token.payload.exp >= at
    /\ ~HasAttr(token.payload, "scope")
    /\ HasAttr(token.payload, "sub")

\* C13: redeeming a valid confirmation token for a user whose address has
\* been confirmed before is answered with success (200) and leaves the users
\* table as it was, however often it is repeated.
C13_ConfirmIdempotent ==
    [][(/\ last'.op = "confirmed_email"
        /\ last' # last
        /\ ValidEmailToken(last'.token, last'.at)
        /\ Registered(last'.token.payload.sub)
        /\ last'.token.payload.sub \in redeemed)
       => (last'.status = 200 /\ users' = users)]_vars

\* C14: a valid confirmation token whose subject is no user's address is
\* answered 400 'Verification error' and changes no user; one for a user who
\* has not confirmed is answered with success and sets that user's confirmed
\* flag, changing no other user and no other field.
C14_ConfirmFlipsFlag ==
    [][(/\ last'.op = "confirmed_email"
        /\ last' # last
        /\ ValidEmailToken(last'.token, last'.at))
       => /\ ~Registered(last'.token.payload.sub)
             => (/\ last'.status = 400
                 /\ last'.detail = "Verification error"
                 /\ users' = users)
          /\ (Registered(last'.token.payload.sub)
              /\ last'.token.payload.sub \notin redeemed)
             => (/\ last'.status = 200
                 /\ \A u \in users :
                      IF u.email # last'.token.payload.sub THEN u \in users'
                      ELSE \E v \in users' :
                             /\ HasAttr(v, "confirmed") /\ v.confirmed
                             /\ \A f \in DOMAIN u : f # "confirmed" => v[f] = u[f])]_vars

MonthDay(dt) == <<dt.m, dt.d>>

\* the caller's contacts at the time of the last request
OwnContacts == {c \in contacts : c.user_id = last.caller}

\* C15: the birthday query returns the caller's contact whose birthday
\* (month and day) is today, the one whose birthday is 7 days from today,
\* and not the one whose birthday is 8 days from today.
C15_BirthdayWindow ==
    (last.op = "read_contacts_with_recent_birthdays" /\ last.status = 200)
    => \A c \in OwnContacts :
         /\ MonthDay(c.birthday) = MonthDay(current_date) => c \in last.found
         /\ MonthDay(c.birthday) = MonthDay(PlusDays(current_date, 7)) => c \in last.found
         /\ MonthDay(c.birthday) = MonthDay(PlusDays(current_date, 8)) => c \notin last.found

\* C16: the birthday query returns a contact of the caller exactly when the
\* contact's age in whole years 7 days from today is its age today plus 1.
C16_AgeComparison ==
    (last.op = "read_contacts_with_recent_birthdays" /\ last.status = 200)
    => \A c \in OwnContacts :
         c \in last.found
         <=> YearsBetween(c.birthday, PlusDays(current_date, 7))
             = YearsBetween(c.birthday, current_date) + 1

\* C17: every session opened by get_db is eventually closed, however the
\* handler ends, and no session is open once its request has finished.
C17_SessionsClosed ==
    \A r \in 1..MaxRequests :
        /\ [](sessions[r].pc = "finished" => sessions[r].db = "closed")
        /\ (sessions[r].db = "open") ~> (sessions[r].db = "closed")

C17_Witness ==
    \E r \in 1..MaxRequests :
        /\ sessions[r].pc = "finished"
        /\ sessions[r].outcome = "Exception"
        /\ sessions[r].db = "closed"

\* C18: get_current_user accepts an access token only before its expiry,
\* 15 minutes after issue, and decode_refresh_token a refresh token only
\* before its expiry, 7 days after issue; from its expiry on a token is
\* refused with 401.
C18_TokenLifecycle ==
    /\ (last.op = "read_users_me" /\ last.status = 200)
       => (/\ last.token.payload.exp = last.token.payload.iat + AccessTTL
           /\ last.at < last.token.payload.exp)
    /\ (last.op = "refresh_token" /\ last.email # "")
       => (/\ last.token.payload.exp = last.token.payload.iat + RefreshTTL
           /\ last.at < last.token.payload.exp)
    /\ (\/ last.op = "read_users_me"
           /\ HasAttr(last.token.payload, "scope")
           /\ last.token.payload.scope = "access_token"
        \/ last.op = "refresh_token"
           /\ HasAttr(last.token.payload, "scope")
           /\ last.token.payload.scope = "refresh_token")
       => (last.at >= last.token.payload.exp => last.status = 401)

\* C19: the confirmation route refuses an access or a refresh token of a
\* registered user as an invalid token: it is answered 422 or 401 and the
\* user is not taken as the one to confirm.
C19_ConfirmationTokenOnly ==
    (/\ last.op = "confirmed_email"
     /\ HasAttr(last.token.payload, "scope")
     /\ last.token.payload.scope \in {"access_token", "refresh_token"}
     /\ Registered(last.token.payload.sub))
    => (last.status \in {401, 422} /\ last.email = "")

\* C20: the refresh route answers a request that presents a validly
\* signed, unexpired refresh-scoped token either with 200 and a token pair
\* or with 401; when the subject of the token is no user's address the
\* answer is 401.
C20_RefreshAnswers ==
    (/\ last.op = "refresh_token"
     /\ ValidScoped(last.token, "refresh_token", last.at))
    => /\ \/ last.status = 200 /\ ~NoTokenPair(last)
          \/ last.status = 401 /\ NoTokenPair(last)
       /\ ~Registered(last.token.payload.sub) => last.status = 401

\* C21: POST /auth/request_email answers 200 with a message for every
\* submitted address, registered or not, confirmed or not; it changes no
\* user record and hands a confirmation mail to the background tasks exactly
\* when the address belongs to a registered user who has not confirmed.
C21_RequestEmail ==
    [][(last'.op = "request_email" /\ last' # last)
       => /\ last'.status = 200
          /\ last'.detail # ""
          /\ users' = users
          /\ last'.mailed =
                IF Registered(last'.email) /\ last'.email \notin redeemed
                THEN {last'.email} ELSE {}]_vars

\* C22: a refresh answered 200 for presented token T leaves the newly issued
\* refresh token T' stored on the user's row, and T' differs from T, also
\* when T was issued in the clock second in which it is presented.
C22_RotationIssuesNewToken ==
    [][(/\ last'.op = "refresh_token"
        /\ (last' # last \/ users' # users)
        /\ last'.status = 200)
       => /\ \E u \in users' : /\ u.email = last'.token.payload.sub
                               /\ u.refresh_token = last'.refresh_token
          /\ last'.refresh_token # last'.token]_vars

\* the request was made with a valid access token of a registered user
Authenticated(req) ==
    /\ ValidScoped(req.token, "access_token", req.at)
    /\ Registered(req.token.payload.sub)

\* the contacts with the id of the request that the calling user owns
OwnTargets(req, tbl) ==
    {c \in tbl : c.id = req.cid /\ OwnedBySubject(c, req.token)}

\* the five fields of the contact are those of the body
CarriesBody(contact, body) ==
    /\ contact.firstname = body.firstname
    /\ contact.lastname = body.lastname
    /\ contact.email = body.email
    /\ contact.phone = body.phone
    /\ contact.birthday = body.birthday

\* C23: update_contact called by the owner with the id of one of their
\* contacts sets its firstname, lastname, email, phone and birthday to the
\* body's values and returns that contact, leaving its id, user_id and
\* created_at and every other contact as they were; with an id that names no
\* contact of the caller it returns None (404) and changes nothing.
C23_UpdateContact ==
    [][(/\ last'.op = "update_contact"
        /\ last' # last
        /\ Authenticated(last'))
       => IF OwnTargets(last', contacts) = {}
          THEN /\ last'.status = 404
               /\ last'.found = {}
               /\ contacts' = contacts
          ELSE /\ last'.status = 200
               /\ \E old \in OwnTargets(last', contacts), new \in contacts' :
                    /\ last'.found = {new}
                    /\ CarriesBody(new, last'.body)
                    /\ new.id = old.id
                    /\ new.user_id = old.user_id
                    /\ new.created_at = old.created_at
                    /\ contacts' \ {new} = contacts \ {old}]_vars

C23_Witness ==
    /\ last.op = "update_contact"
    /\ Authenticated(last)
    /\ last.status = 200
    /\ \E c \in contacts : /\ last.found = {c}
                           /\ c.id = last.cid
                           /\ CarriesBody(c, last.body)
    /\ \E c \in contacts : c.id # last.cid

\* get_contact, update_contact and remove_contact return None for this id,
\* whoever calls
NoneForEveryUser(contact_id, tbl, callers) ==
    \A u \in callers :
        /\ get_contact(contact_id, tbl, u) = None
        /\ remove_contact(contact_id, tbl, u).contact = None
        /\ \A b \in Bodies : update_contact(contact_id, b, tbl, u).contact = None

\* C24: remove_contact called by the owner with the id of one of their
\* contacts deletes exactly that contact and returns it, and from then on
\* get_contact, update_contact and remove_contact return None for that id
\* for every user; with an id that names no contact of the caller it returns
\* None (404) and deletes nothing.
C24_RemoveContact ==
    [][/\ (/\ last'.op = "remove_contact"
           /\ last' # last
           /\ Authenticated(last'))
          => IF OwnTargets(last', contacts) = {}
             THEN /\ last'.status = 404
                  /\ last'.found = {}
                  /\ contacts' = contacts
             ELSE /\ last'.status = 200
                  /\ \E old \in OwnTargets(last', contacts) :
                       /\ last'.found = {old}
                       /\ contacts' = contacts \ {old}
                  /\ NoneForEveryUser(last'.cid, contacts', users')
       /\ \A id \in 1..contact_seq :
            NoneForEveryUser(id, contacts, users)
            => NoneForEveryUser(id, contacts', users')]_vars

C24_Witness ==
    /\ last.op = "remove_contact"
    /\ Authenticated(last)
    /\ last.status = 200
    /\ \E c \in last.found : c.id = last.cid /\ OwnedBySubject(c, last.token)
    /\ contacts # {}
    /\ NoneForEveryUser(last.cid, contacts, users)

\* C25: create_contact adds exactly one contact, which carries the body's
\* firstname, lastname, email, phone and birthday, belongs to the calling
\* user and has an id never issued before, returns it, and leaves the
\* contacts that existed as they were; no operation changes the owner
\* (user_id) of a contact.
C25_CreateContact ==
    [][/\ (/\ last'.op = "create_contact"
           /\ last' # last
           /\ Authenticated(last'))
          => /\ last'.status = 201
             /\ \E new \in contacts' :
                  /\ last'.found = {new}
                  /\ new \notin contacts
                  /\ contacts' = contacts \cup {new}
                  /\ CarriesBody(new, last'.body)
                  /\ OwnedBySubject(new, last'.token)
                  /\ new.id \notin 1..contact_seq
                  /\ \A c \in contacts : c.id # new.id
       /\ \A c \in contacts, d \in contacts' :
            c.id = d.id => c.user_id = d.user_id]_vars

C25_Witness ==
    /\ last.op = "create_contact"
    /\ Authenticated(last)
    /\ last.status = 201
    /\ \E c \in contacts : /\ last.found = {c}
                           /\ CarriesBody(c, last.body)
                           /\ OwnedBySubject(c, last.token)
    /\ \E c \in contacts : ~OwnedBySubject(c, last.token)

====
